---- MODULE Spec2Model ----
(***************************************************************************)
(* The dispatch core of src/agent_sim_v2.py: the Force Control Room (FCR), *)
(* its stations, officers and incidents, and main_simulation_loop.         *)
(*                                                                         *)
(* Reading conventions used throughout.                                    *)
(*  - The class body of FCR defines assign_incident twice (lines 361 and   *)
(*    448); Python keeps the later one, so assign_incident below is the    *)
(*    definition of lines 448-452.  The earlier one is dead code.          *)
(*  - get_available_officers calls officer.is_on_duty() with no argument;  *)
(*    the model evaluates the duty test at the current simulation time.    *)
(*  - Points are positions on a line; distance is the absolute difference  *)
(*    and a response area is a set of positions.                           *)
(*  - Clock values are minutes; datetime.time() is the value modulo one    *)
(*    day.  Countdowns are held in minutes as well.                        *)
(*  - An optional number (travel_time, resolution_time) is the empty set   *)
(*    for Python's None and {v} for the number v.  Comparing or            *)
(*    decrementing None raises TypeError, recorded in raised; nothing      *)
(*    runs after an uncaught exception.                                    *)
(*  - Objects are compared by identity; incidents are named by their       *)
(*    serial number, officers and stations by their id.                    *)
(*  - fcr.incident_backlog is read by main_simulation_loop and written by  *)
(*    no other code; the caller fills it (action Enqueue).                 *)
(*  - main_simulation_loop does not return control between ticks, so the   *)
(*    dispatcher's methods are called only while no loop is running.       *)
(*  - The fields of an incident that no code of the program writes         *)
(*    (priority, report_time and the id attribute the caller attaches) are *)
(*    held in attrs, apart from the fields that change (inc).              *)
(*  - A method that only computes a value is an operator; call holds the   *)
(*    arguments and the result of one call of such a method.               *)
(*  - IncidentType is a plain Enum, so -incident.priority (line 406)       *)
(*    raises TypeError as written; the model negates the member's value,   *)
(*    the reading under which sort_by_priority_and_time returns at all.    *)
(***************************************************************************)
EXTENDS Integers, Sequences, FiniteSets, TLC

\* ------------------------------------------------------------------ bounds
MaxIncidents == 2
MaxTicks == 3
\* The longest list handed to sort_by_priority_and_time.
MaxSorted == 3
\* The longest string of digits handed to OfficerStatus.from_code.
MaxCodeLen == 2
\* The length of fcr.incidents when determine_station_priority is called.
MaxListed == 3
\* The number of sampled points of the travel-time table.
MaxPoints == 3

\* --------------------------------------------------------- program values
TimeStep == 5
MinutesPerDay == 1440
None == 0

REPORTED == "REPORTED"
EN_ROUTE == "EN_ROUTE"
ATTENDED == "ATTENDED"
RESOLVED == "RESOLVED"
IncidentStatus == <<REPORTED, EN_ROUTE, ATTENDED, RESOLVED>>

\* IncidentType: the members' values.
IMMEDIATE == 1
PROMPT == 2
SCHEDULED == 3
APPOINTMENT == 4
NO_RESPONSE == 5
IncidentType == {IMMEDIATE, PROMPT, SCHEDULED, APPOINTMENT, NO_RESPONSE}

\* Incident.isr before any reference is stored: the string "PENDING".  A
\* string is a tuple of its parts (see gen_isr).
PENDING == <<"PENDING">>
DEFAULT_STATUS == "available"
AVAILABLE_AT_STATION == "03"
ATTENDING_INCIDENT == "05"

ShiftType == [EARLY |-> [start_hour |-> 7, end_hour |-> 16],
              LATE |-> [start_hour |-> 15, end_hour |-> 0],
              NIGHT |-> [start_hour |-> 22, end_hour |-> 7]]

start_time(shift) == ShiftType[shift].start_hour * 60
end_time_of(shift) == ShiftType[shift].end_hour * 60

\* --------------------------------------------------------------- the set-up
\* Two stations in fcr.stations order; their response areas overlap on 2..3.
Stations == <<1, 2>>
StationLocation == <<0, 4>>
ResponseArea == <<0..3, 2..5>>
\* station.officers, in roster order; every officer works the EARLY shift.
Officers == 1..3
StationOfficers == << <<1>>, <<2, 3>> >>
OfficerShift == <<"EARLY", "EARLY", "EARLY">>
\* officer.current_location, which no code writes: officer 1 stands at
\* station A, officer 3 at station B and officer 2, ahead of officer 3 on
\* B's roster, one position beyond it.
OfficerLocation == <<0, 5, 4>>
\* Officer(status=...): officer 1 is constructed "Available at station", the
\* others with the dataclass default.
InitialStatus == <<AVAILABLE_AT_STATION, DEFAULT_STATUS, DEFAULT_STATUS>>
\* Where incidents are reported: inside A only, inside both (nearer to B,
\* while A comes first in fcr.stations), inside no response area.
Locations == {1, 3, 7}
\* A location inside B's response area only, where officer 3 stands.
LocationsOfB == {4}
\* The (travel_time, resolution_time) an incident may be constructed with:
\* the defaults (None, None), or an immediate arrival and two ticks on scene.
Countdowns == { <<{}, {}>>, <<{0}, {10}>> }
\* The simulation starts at 06:55, one tick before the EARLY shift begins:
\* nobody is on duty at first, everybody from the second tick on.
StartTimes == {415}

IncidentIds == 1..MaxIncidents

\* What the caller puts into Incident(priority=..., report_time=...): two
\* priorities, and a report five minutes before the start or at the start.
Priorities == {IMMEDIATE, PROMPT}
ReportTimes == {410, 415}
\* The id attribute the caller attaches to an incident: Incident has no id
\* field and no code writes one (line 511 is commented out), so an incident
\* has the id its caller gave it, or none (None here).
AttachedIds == {None, 1, 2}
\* A caller that reports every incident PROMPT at the start and numbers the
\* incidents serially, as the counter of lines 503-513 would.
SerialAttrs == [i \in IncidentIds |-> [priority |-> PROMPT, report_time |-> 415, id |-> i]]
\* No call of a computing method is in progress.
NoCall == [fn |-> "none", args |-> <<>>, result |-> <<>>]

VARIABLES now, end_time, running, ticks, incidents, inc, off,
          incident_backlog, incidents_attended, log, raised, last,
          attrs, call

vars == <<now, end_time, running, ticks, incidents, inc, off,
          incident_backlog, incidents_attended, log, raised, last,
          attrs, call>>

\* ------------------------------------------------------------ pure helpers
Abs(x) == IF x < 0 THEN 0 - x ELSE x
distance(a, b) == Abs(a - b)
contains(station, location) == location \in ResponseArea[station]

Range(s) == {s[k] : k \in 1..Len(s)}

RECURSIVE SelectSeq2(_, _)
\* The subsequence of s whose elements lie in the set keep, order preserved.
SelectSeq2(s, keep) ==
    IF s = <<>> THEN <<>>
    ELSE IF Head(s) \in keep THEN <<Head(s)>> \o SelectSeq2(Tail(s), keep)
         ELSE SelectSeq2(Tail(s), keep)

\* Officer.__post_init__: end_time is shift.end_time on the date of the
\* simulation time the officer is constructed at, or on the day after.
post_init(shift, simulation_time) ==
    LET date == simulation_time \div MinutesPerDay
    IN  IF start_time(shift) < simulation_time % MinutesPerDay
        THEN date * MinutesPerDay + end_time_of(shift)
        ELSE (date + 1) * MinutesPerDay + end_time_of(shift)

\* The comparison of Officer.is_on_duty:
\* shift.start_time <= simulation_time.time() <= end_time.time().
on_duty(shift, officer_end_time, simulation_time) ==
    /\ start_time(shift) <= simulation_time % MinutesPerDay
    /\ simulation_time % MinutesPerDay <= officer_end_time % MinutesPerDay

\* Officer.is_on_duty of an officer of the set-up, constructed at the start.
is_on_duty(officer, t) ==
    LET constructed_at == CHOOSE s \in StartTimes : TRUE
    IN  on_duty(OfficerShift[officer], post_init(OfficerShift[officer], constructed_at), t)

\* The station on whose roster the officer is (officer.station).
StationOf(o) == CHOOSE s \in Range(Stations) : o \in Range(StationOfficers[s])

\* ------------------------------------------------------------- dispatcher
\* FCR.find_responsible_station: the first station of fcr.stations whose
\* response area contains the location, None (after logging) when none does.
find_responsible_station(location) ==
    LET hits == {k \in 1..Len(Stations) : contains(Stations[k], location)}
    IN  IF hits = {} THEN None
        ELSE Stations[CHOOSE k \in hits : \A j \in hits : k <= j]

\* FCR.get_available_officers: the station's officers, in roster order, that
\* have no incident and are on duty.
get_available_officers(offs, station, t) ==
    SelectSeq2(StationOfficers[station],
               {o \in Officers : offs[o].assigned_incident = None /\ is_on_duty(o, t)})

\* priority_key of determine_station_priority: (distance, -available, workload).
priority_key(incs, offs, incidentList, station, location, t) ==
    << distance(StationLocation[station], location),
       0 - Len(get_available_officers(offs, station, t)),
       Cardinality({k \in 1..Len(incidentList) : incs[incidentList[k]].station = station}) >>

\* Python's tuple order on the keys.
KeyLess(a, b) ==
    \E k \in 1..Len(a) : a[k] < b[k] /\ \A j \in 1..(k - 1) : a[j] = b[j]

\* One step of a stable sort: x goes behind every element whose key is not greater.
InsertByKey(x, sorted, key) ==
    LET n == Cardinality({k \in 1..Len(sorted) : ~KeyLess(key[x], key[sorted[k]])})
    IN  SubSeq(sorted, 1, n) \o <<x>> \o SubSeq(sorted, n + 1, Len(sorted))

RECURSIVE SortedByKey(_, _)
\* sorted(seq, key=...): ascending by key, equal keys keep their order.
SortedByKey(seq, key) ==
    IF seq = <<>> THEN <<>>
    ELSE InsertByKey(seq[Len(seq)], SortedByKey(SubSeq(seq, 1, Len(seq) - 1), key), key)

\* determine_station_priority without its sort: the candidates in
\* fcr.stations order.
determine_station_priority_unsorted(incs, offs, incidentList, i, t) ==
    SelectSeq2(Stations, {s \in Range(Stations) : contains(s, incs[i].location)})

\* FCR.determine_station_priority: the stations containing the incident's
\* location, sorted by priority_key.
determine_station_priority(incs, offs, incidentList, i, t) ==
    LET location == incs[i].location
        candidate_stations == SelectSeq2(Stations, {s \in Range(Stations) : contains(s, location)})
        key == [s \in Range(Stations) |-> priority_key(incs, offs, incidentList, s, location, t)]
    IN  SortedByKey(candidate_stations, key)

\* min(available_officers, key=distance): the first officer at least distance.
closest_officer(available_officers, location) ==
    LET d(o) == distance(OfficerLocation[o], location)
        k == CHOOSE k \in 1..Len(available_officers) :
                 /\ \A j \in 1..Len(available_officers) : d(available_officers[k]) <= d(available_officers[j])
                 /\ \A j \in 1..(k - 1) : d(available_officers[k]) < d(available_officers[j])
    IN  available_officers[k]

\* FCR.assign_officer_to_incident: binds the closest available officer of the
\* station; the incident becomes EN_ROUTE whatever its status was.
assign_officer_to_incident(incs, offs, i, station, t) ==
    LET available_officers == get_available_officers(offs, station, t)
    IN  IF available_officers = <<>>
        THEN [ok |-> FALSE, inc |-> incs, off |-> offs]
        ELSE LET o == closest_officer(available_officers, incs[i].location)
             IN  [ok |-> TRUE,
                  inc |-> [incs EXCEPT ![i].status = EN_ROUTE, ![i].station = station],
                  off |-> [offs EXCEPT ![o].assigned_incident = i]]

RECURSIVE TryStations(_, _, _, _, _)
\* The for loop of assign_incident over station_priority.
TryStations(station_priority, incs, offs, i, t) ==
    IF station_priority = <<>> THEN [ok |-> FALSE, inc |-> incs, off |-> offs]
    ELSE LET r == assign_officer_to_incident(incs, offs, i, Head(station_priority), t)
         IN  IF r.ok THEN r ELSE TryStations(Tail(station_priority), incs, offs, i, t)

\* FCR.assign_incident (the definition in force, lines 448-452).
assign_incident(incs, offs, incidentList, i, t) ==
    TryStations(determine_station_priority(incs, offs, incidentList, i, t), incs, offs, i, t)

\* Incident(...): the dataclass defaults, with the fields the caller passes.
NewIncident(location, travel_time, resolution_time) ==
    [location |-> location, status |-> REPORTED, station |-> None,
     assigned_officer |-> None, travel_time |-> travel_time,
     resolution_time |-> resolution_time, isr |-> PENDING]

\* A slot of inc that holds no incident yet.
NoIncident == NewIncident(0, {}, {})

\* ---------------------------------------------------- main_simulation_loop
\* The loop's working state: st.inc, st.off, st.backlog (fcr.incident_backlog),
\* st.attended (incidents_attended), st.log, st.raised.

\* The guard of the backlog loop (line 516).
BacklogGuard(st) ==
    /\ st.backlog # <<>>
    /\ \E o \in Officers : st.off[o].status = AVAILABLE_AT_STATION

\* Lines 524-529: the first available officer takes the incident.
BindFirstAvailable(st, i, available_officers) ==
    LET assigned_officer == available_officers[1]
    IN  [st EXCEPT !.off[assigned_officer].status = ATTENDING_INCIDENT,
                   !.off[assigned_officer].assigned_incident = i,
                   !.inc[i].status = EN_ROUTE,
                   !.attended = Append(st.attended, i)]

RECURSIVE AssignBacklog(_, _)
\* Step 3 of a tick (lines 516-537), at clock value t.
AssignBacklog(st, t) ==
    IF ~BacklogGuard(st) THEN st
    ELSE LET i == Head(st.backlog)
             popped == [st EXCEPT !.backlog = Tail(st.backlog)]
             responsible_station == find_responsible_station(st.inc[i].location)
         IN  IF responsible_station = None
             THEN AssignBacklog([popped EXCEPT !.log = st.log \cup {"NoResponsibleStation"}], t)
             ELSE LET available_officers == get_available_officers(st.off, responsible_station, t)
                  IN  IF available_officers # <<>>
                      THEN AssignBacklog(BindFirstAvailable(popped, i, available_officers), t)
                      ELSE st

\* list.remove(x): without the first occurrence of x.
Remove(s, x) ==
    LET k == CHOOSE k \in 1..Len(s) : s[k] = x /\ \A j \in 1..(k - 1) : s[j] # x
    IN  SubSeq(s, 1, k - 1) \o SubSeq(s, k + 1, Len(s))

\* Line 552: the first officer, station by station, bound to the incident.
OfficersInOrder == StationOfficers[1] \o StationOfficers[2]
BoundOfficers(offs, i) == SelectSeq2(OfficersInOrder, {o \in Officers : offs[o].assigned_incident = i})

\* Lines 543-545: arrival.
Arrive(st, i) ==
    IF st.inc[i].status # EN_ROUTE THEN st
    ELSE IF st.inc[i].travel_time = {} THEN [st EXCEPT !.raised = "TypeError"]
    ELSE IF (CHOOSE v \in st.inc[i].travel_time : TRUE) <= 0
         THEN [st EXCEPT !.inc[i].status = ATTENDED, !.inc[i].travel_time = {}]
         ELSE st

\* Lines 548-555: the resolution countdown, the release of the officer.
Resolve(st, i) ==
    IF st.inc[i].status # ATTENDED THEN st
    ELSE IF st.inc[i].resolution_time = {} THEN [st EXCEPT !.raised = "TypeError"]
    ELSE LET left == (CHOOSE v \in st.inc[i].resolution_time : TRUE) - TimeStep
             counted == [st EXCEPT !.inc[i].resolution_time = {left}]
         IN  IF left > 0 THEN counted
             ELSE LET done == [counted EXCEPT !.inc[i].status = RESOLVED]
                      bound == BoundOfficers(done.off, i)
                  IN  IF bound = <<>> THEN [done EXCEPT !.raised = "StopIteration"]
                      ELSE [done EXCEPT !.off[bound[1]].status = AVAILABLE_AT_STATION,
                                        !.off[bound[1]].assigned_incident = None,
                                        !.attended = Remove(done.attended, i)]

\* The body of the for loop for one incident.
UpdateOne(st, i) ==
    LET arrived == Arrive(st, i)
    IN  IF arrived.raised # "none" THEN arrived ELSE Resolve(arrived, i)

RECURSIVE UpdateAttended(_, _)
\* Step 5 of a tick (lines 541-555): Python's list iterator reads position k
\* of the list as it is now, then moves to k + 1.
UpdateAttended(st, k) ==
    IF st.raised # "none" \/ k > Len(st.attended) THEN st
    ELSE UpdateAttended(UpdateOne(st, st.attended[k]), k + 1)

\* One pass of the while loop of main_simulation_loop, at clock value t.
TickBody(st, t) ==
    LET assigned == AssignBacklog(st, t)
        updated == UpdateAttended(assigned, 1)
    IN  IF updated.raised # "none" THEN updated
        ELSE [updated EXCEPT !.log = updated.log \cup {"Timestep"}]

\* ------------------------------------------------------------------ actions
Idle == raised = "none" /\ ~running

InitDispatch ==
    /\ now \in StartTimes
    /\ end_time = now
    /\ running = FALSE
    /\ ticks = 0
    /\ incidents = <<>>
    /\ inc = [i \in IncidentIds |-> NoIncident]
    /\ off = [o \in Officers |-> [status |-> InitialStatus[o], assigned_incident |-> None]]
    /\ incident_backlog = <<>>
    /\ incidents_attended = <<>>
    /\ log = {}
    /\ raised = "none"
    /\ last = [op |-> "other", arg |-> None]

\* The incidents carry the attributes of a serially numbering caller.
Init ==
    /\ InitDispatch
    /\ attrs = SerialAttrs
    /\ call = NoCall

\* add_incident putting the new incident at the head of fcr.incidents.
AddIncidentInFront(location, travel_time, resolution_time) ==
    /\ Idle
    /\ Len(incidents) < MaxIncidents
    /\ LET i == Len(incidents) + 1
           inserted == <<i>> \o incidents
           created == [inc EXCEPT ![i] = NewIncident(location, travel_time, resolution_time)]
           r == assign_incident(created, off, inserted, i, now)
       IN  /\ incidents' = inserted
           /\ inc' = r.inc
           /\ off' = r.off
           /\ last' = [op |-> "add_incident", arg |-> i]
    /\ log' = {}
    /\ UNCHANGED <<now, end_time, running, ticks, incident_backlog, incidents_attended, raised, attrs, call>>

\* fcr.add_incident(Incident(...)): append, then assign_incident.
AddIncident(location, travel_time, resolution_time) ==
    /\ Idle
    /\ Len(incidents) < MaxIncidents
    /\ LET i == Len(incidents) + 1
           appended == Append(incidents, i)
           created == [inc EXCEPT ![i] = NewIncident(location, travel_time, resolution_time)]
           r == assign_incident(created, off, appended, i, now)
       IN  /\ incidents' = appended
           /\ inc' = r.inc
           /\ off' = r.off
           /\ last' = [op |-> "add_incident", arg |-> i]
    /\ log' = {}
    /\ UNCHANGED <<now, end_time, running, ticks, incident_backlog, incidents_attended, raised, attrs, call>>

\* fcr.assign_incident(incident) on an incident of fcr.incidents.
AssignIncident(i) ==
    /\ Idle
    /\ i \in Range(incidents)
    /\ LET r == assign_incident(inc, off, incidents, i, now)
       IN  /\ inc' = r.inc
           /\ off' = r.off
    /\ last' = [op |-> "assign_incident", arg |-> i]
    /\ log' = {}
    /\ UNCHANGED <<now, end_time, running, ticks, incidents, incident_backlog, incidents_attended, raised, attrs, call>>

\* The caller queues a reported incident on fcr.incident_backlog.
Enqueue(i) ==
    /\ Idle
    /\ i \in Range(incidents)
    /\ inc[i].status = REPORTED
    /\ i \notin Range(incident_backlog)
    /\ incident_backlog' = Append(incident_backlog, i)
    /\ last' = [op |-> "other", arg |-> None]
    /\ log' = {}
    /\ UNCHANGED <<now, end_time, running, ticks, incidents, inc, off, incidents_attended, raised, attrs, call>>

\* main_simulation_loop(fcr, total_time, timestep, start_time) is entered
\* (lines 500-503).
StartLoop(total_ticks) ==
    /\ Idle
    /\ ticks + total_ticks <= MaxTicks
    /\ end_time' = now + total_ticks * TimeStep
    /\ running' = TRUE
    /\ incidents_attended' = <<>>
    /\ last' = [op |-> "other", arg |-> None]
    /\ log' = {}
    /\ UNCHANGED <<now, ticks, incidents, inc, off, incident_backlog, raised, attrs, call>>

\* One iteration of the while loop (lines 505-563).
Tick ==
    /\ raised = "none" /\ running
    /\ now < end_time
    /\ LET st == TickBody([inc |-> inc, off |-> off, backlog |-> incident_backlog,
                           attended |-> incidents_attended, log |-> {}, raised |-> "none"], now)
       IN  /\ inc' = st.inc
           /\ off' = st.off
           /\ incident_backlog' = st.backlog
           /\ incidents_attended' = st.attended
           /\ log' = st.log
           /\ raised' = st.raised
           /\ now' = IF st.raised = "none" THEN now + TimeStep ELSE now
    /\ ticks' = ticks + 1
    /\ last' = [op |-> "tick", arg |-> None]
    /\ UNCHANGED <<end_time, running, incidents, attrs, call>>

\* The while condition fails and main_simulation_loop returns; its locals go.
Return ==
    /\ raised = "none" /\ running
    /\ now >= end_time
    /\ running' = FALSE
    /\ incidents_attended' = <<>>
    /\ end_time' = now
    /\ last' = [op |-> "other", arg |-> None]
    /\ log' = {}
    /\ UNCHANGED <<now, ticks, incidents, inc, off, incident_backlog, raised, attrs, call>>

Next ==
    \/ \E location \in Locations, countdown \in Countdowns :
           AddIncident(location, countdown[1], countdown[2])
    \/ \E i \in IncidentIds : AssignIncident(i)
    \/ \E i \in IncidentIds : Enqueue(i)
    \/ \E total_ticks \in 0..MaxTicks : StartLoop(total_ticks)
    \/ Tick
    \/ Return

Spec == Init /\ [][Next]_vars

\* The same program with the incidents reported where only B is responsible.
NextOfB ==
    \/ \E location \in LocationsOfB, countdown \in Countdowns :
           AddIncident(location, countdown[1], countdown[2])
    \/ \E i \in IncidentIds : AssignIncident(i)
    \/ \E i \in IncidentIds : Enqueue(i)
    \/ \E total_ticks \in 0..MaxTicks : StartLoop(total_ticks)
    \/ Tick
    \/ Return

SpecOfB == Init /\ [][NextOfB]_vars

\* The same program with the priority and the report time of each incident
\* chosen by the caller.
InitAttrs ==
    /\ InitDispatch
    /\ attrs \in [IncidentIds -> [priority : Priorities, report_time : ReportTimes, id : IncidentIds]]
    /\ \A i \in IncidentIds : attrs[i].id = i
    /\ call = NoCall

SpecAttrs == InitAttrs /\ [][Next]_vars

\* The same program with the id attribute of each incident left to the caller.
InitIds ==
    /\ InitDispatch
    /\ attrs \in [IncidentIds -> [priority : {PROMPT}, report_time : {415}, id : AttachedIds]]
    /\ call = NoCall

SpecIds == InitIds /\ [][Next]_vars

\* ------------------------------------------------------ computing methods
\* While a computing method is called the dispatcher's state stays as built.
dispatch_vars == <<now, end_time, running, ticks, incidents, inc, off,
                   incident_backlog, incidents_attended, log, raised, last, attrs>>

InitComputing ==
    /\ InitDispatch
    /\ attrs = SerialAttrs

\* The call in progress returns value.
Returns(fn, value) ==
    /\ call.fn = fn
    /\ call.result = <<>>
    /\ call' = [call EXCEPT !.result = <<value>>]
    /\ UNCHANGED dispatch_vars

\* Officer(shift=Shift(shift), ...) constructed at constructed_at and asked
\* is_on_duty(simulation_time): every shift, every full hour of the start
\* day for the construction, every full hour of that day and the next for
\* the question.
HoursOfTwoDays == {h * 60 : h \in 0..47}
InitDuty ==
    /\ InitComputing
    /\ \E shift \in DOMAIN ShiftType, constructed_at, simulation_time \in HoursOfTwoDays :
           /\ constructed_at < MinutesPerDay
           /\ call = [fn |-> "is_on_duty", args |-> <<shift, constructed_at, simulation_time>>,
                      result |-> <<>>]

IsOnDuty ==
    Returns("is_on_duty", on_duty(call.args[1], post_init(call.args[1], call.args[2]), call.args[3]))

SpecDuty == InitDuty /\ [][IsOnDuty]_vars

\* FCR.sort_by_priority_and_time:
\* sorted(incidents, key=lambda incident: (-incident.priority, incident.report_time)).
sort_by_priority_and_time(incidentList) ==
    LET key == [k \in 1..Len(incidentList) |->
                    <<0 - incidentList[k].priority, incidentList[k].report_time>>]
        order == SortedByKey([k \in 1..Len(incidentList) |-> k], key)
    IN  [k \in 1..Len(incidentList) |-> incidentList[order[k]]]

\* The lists of at most n incidents, each with a priority and a report time.
SortTimes == {405, 410, 415}
IncidentLists(n) ==
    UNION {[1..m -> [priority : IncidentType, report_time : SortTimes]] : m \in 0..n}

InitSort ==
    /\ InitComputing
    /\ \E incidentList \in IncidentLists(MaxSorted) :
           call = [fn |-> "sort_by_priority_and_time", args |-> <<incidentList>>, result |-> <<>>]

SortByPriorityAndTime ==
    Returns("sort_by_priority_and_time", sort_by_priority_and_time(call.args[1]))

SpecSort == InitSort /\ [][SortByPriorityAndTime]_vars

RECURSIVE DecimalDigits(_)
\* The decimal digits of a natural number, most significant first.
DecimalDigits(n) ==
    IF n < 10 THEN <<n>> ELSE Append(DecimalDigits(n \div 10), n % 10)

\* format(n, "04d"): the digits, padded with zeros on the left to four.
ZeroPadded4(n) ==
    LET digits == DecimalDigits(n)
    IN  IF Len(digits) >= 4 THEN digits
        ELSE [k \in 1..(4 - Len(digits)) |-> 0] \o digits

\* report_time.strftime("%Y%m%d"): the date of a clock value, as a day number.
date_str(report_time) == report_time \div MinutesPerDay

\* gen_isr with the serial number taken from the number of incidents so far.
gen_isr_counted(incident) ==
    <<"Inc", date_str(incident.report_time), ZeroPadded4(Len(incidents))>>

\* FCR.gen_isr: f"Inc-{date_str}-{incident.id:04d}".
gen_isr(incident) ==
    <<"Inc", date_str(incident.report_time), ZeroPadded4(incident.id)>>

\* OfficerStatus: the members in definition order, each with its code.
OfficerStatus ==
    << [name |-> "URGENT_ASSISTANCE", code |-> "00"],
       [name |-> "ON_DUTY", code |-> "01"],
       [name |-> "ON_PATROL", code |-> "02"],
       [name |-> "AVAILABLE_AT_STATION", code |-> "03"],
       [name |-> "REFRESHMENTS", code |-> "04"],
       [name |-> "ATTENDING_INCIDENT", code |-> "05"],
       [name |-> "ARRIVED_AT_SCENE", code |-> "06"],
       [name |-> "COMMITTED_BUT_DEPLOYABLE", code |-> "07"],
       [name |-> "COMMITTED_NOT_DEPLOYABLE", code |-> "08"],
       [name |-> "PRISONER_ESCORT", code |-> "09"],
       [name |-> "AT_COURT", code |-> "10"],
       [name |-> "OFF_DUTY", code |-> "11"],
       [name |-> "CONFIDENTIAL_MESSAGE", code |-> "12"],
       [name |-> "RADIO_ON", code |-> "99"] >>

\* from_code falling back on the last member instead of raising.
from_code_defaulting(code) ==
    LET hits == {k \in 1..Len(OfficerStatus) : OfficerStatus[k].code = code}
    IN  IF hits = {}
        THEN [returned |-> OfficerStatus[Len(OfficerStatus)].name, raised |-> "none"]
        ELSE [returned |-> OfficerStatus[CHOOSE k \in hits : \A j \in hits : k <= j].name,
              raised |-> "none"]

\* OfficerStatus.from_code: the first member, in definition order, whose
\* code equals the argument; ValueError when the loop finds none.
from_code(code) ==
    LET hits == {k \in 1..Len(OfficerStatus) : OfficerStatus[k].code = code}
    IN  IF hits = {}
        THEN [returned |-> "", raised |-> "ValueError"]
        ELSE [returned |-> OfficerStatus[CHOOSE k \in hits : \A j \in hits : k <= j].name,
              raised |-> "none"]

\* The strings of at most n decimal digits.
Digit == <<"0", "1", "2", "3", "4", "5", "6", "7", "8", "9">>
RECURSIVE DigitStrings(_)
DigitStrings(n) ==
    IF n = 0 THEN {""}
    ELSE LET shorter == DigitStrings(n - 1)
         IN  shorter \cup {str \o Digit[d] : str \in shorter, d \in 1..10}

InitCodes ==
    /\ InitComputing
    /\ \E code \in DigitStrings(MaxCodeLen) :
           call = [fn |-> "from_code", args |-> <<code>>, result |-> <<>>]

FromCode ==
    Returns("from_code", from_code(call.args[1]))

SpecCodes == InitCodes /\ [][FromCode]_vars

RECURSIVE FirstWithId(_, _)
\* The for loop of get_incident_by_id over the rest of fcr.incidents:
\* reading incident.id of an incident that has none raises AttributeError.
FirstWithId(rest, incident_id) ==
    IF rest = <<>> THEN [returned |-> None, raised |-> "none"]
    ELSE IF attrs[Head(rest)].id = None THEN [returned |-> None, raised |-> "AttributeError"]
    ELSE IF attrs[Head(rest)].id = incident_id THEN [returned |-> Head(rest), raised |-> "none"]
    ELSE FirstWithId(Tail(rest), incident_id)

\* FCR.get_incident_by_id.
get_incident_by_id(incident_id) == FirstWithId(incidents, incident_id)

\* fcr.incidents and the officers when determine_station_priority(incident)
\* is called for the first incident of the list, all officers being on duty.
\* An incident is REPORTED with no station, or EN_ROUTE after
\* assign_officer_to_incident (station set) or after the loop's backlog step
\* (station None), or RESOLVED by the loop.
ListedIncidents(locations) ==
    {r \in [location : locations,
            status : {REPORTED, EN_ROUTE, RESOLVED},
            station : {None} \cup Range(Stations)] :
        /\ r.status = REPORTED => r.station = None
        /\ r.station # None => contains(r.station, r.location)}

\* The officers go with the incidents: an officer has an incident that was
\* bound; an EN_ROUTE incident has an officer of the station that bound it
\* (incident.station, or the responsible station); a RESOLVED incident has
\* lost the officer the loop gave it, and keeps the officer that
\* assign_officer_to_incident gave it when it was bound twice.
Staffed(incs, offs) ==
    LET bound(k, s) == \E o \in Range(StationOfficers[s]) : offs[o].assigned_incident = k
    IN  /\ \A o \in Officers :
               LET k == offs[o].assigned_incident
               IN  k # None => /\ incs[k].status # REPORTED
                               /\ incs[k].status = RESOLVED => incs[k].station = StationOf(o)
        /\ \A k \in DOMAIN incs :
               /\ (incs[k].status = EN_ROUTE /\ incs[k].station # None) => bound(k, incs[k].station)
               /\ (incs[k].status = EN_ROUTE /\ incs[k].station = None) =>
                      /\ find_responsible_station(incs[k].location) # None
                      /\ bound(k, find_responsible_station(incs[k].location))
               /\ (incs[k].status = RESOLVED /\ incs[k].station # None) =>
                      /\ find_responsible_station(incs[k].location) # None
                      /\ find_responsible_station(incs[k].location) # incs[k].station
                      /\ bound(k, incs[k].station)

InitStationPriority ==
    /\ InitComputing
    /\ \E incs \in [1..MaxListed -> ListedIncidents(Locations \cup LocationsOfB \cup {2})],
          offs \in [Officers -> [status : {DEFAULT_STATUS}, assigned_incident : {None} \cup (1..MaxListed)]] :
           /\ \A k \in 2..MaxListed : incs[k].location \in {1} \cup LocationsOfB
           /\ Staffed(incs, offs)
           /\ call = [fn |-> "determine_station_priority",
                      args |-> <<incs, offs, [k \in 1..MaxListed |-> k], 1, 420>>, result |-> <<>>]

DetermineStationPriority ==
    Returns("determine_station_priority",
            determine_station_priority(call.args[1], call.args[2], call.args[3], call.args[4], call.args[5]))

SpecStationPriority == InitStationPriority /\ [][DetermineStationPriority]_vars

\* ------------------------------------------------- src/travel_time_calc.py
\* TravelTimeCalculator(points_file, results_file): two sampled points, at
\* the positions of the stations, and the one row that Road_Sample_Query
\* writes for them (pairs i < j only, indices counted from 0).
points_np == <<0, 4>>
results_df == << [point1_index |-> 0, point2_index |-> 1,
                  distance_metres |-> 4000, duration_seconds |-> 300] >>

\* np.argmin of the squared distances: the index, from 0, of the first
\* sampled point nearest to x.
nearest_index(points, x) ==
    LET sq(k) == (points[k] - x) * (points[k] - x)
        k == CHOOSE k \in 1..Len(points) :
                 /\ \A j \in 1..Len(points) : sq(k) <= sq(j)
                 /\ \A j \in 1..(k - 1) : sq(k) < sq(j)
    IN  k - 1

\* The rows of the table with the given indices, in table order.
rows(results, index1, index2) ==
    SelectSeq(results, LAMBDA row : row.point1_index = index1 /\ row.point2_index = index2)

\* A lookup that reads the table in the stored orientation only.
get_travel_time_and_distance_forward(points, results, origin_coords, dest_coords) ==
    LET forward == rows(results, nearest_index(points, origin_coords),
                        nearest_index(points, dest_coords))
    IN  IF forward # <<>> THEN << {forward[1].distance_metres}, {forward[1].duration_seconds} >>
        ELSE << {}, {} >>

\* TravelTimeCalculator.get_travel_time_and_distance: the first row for the
\* two nearest sampled points, in either orientation; (None, None) without.
get_travel_time_and_distance(points, results, origin_coords, dest_coords) ==
    LET nearest_origin_index == nearest_index(points, origin_coords)
        nearest_dest_index == nearest_index(points, dest_coords)
        forward == rows(results, nearest_origin_index, nearest_dest_index)
        backward == rows(results, nearest_dest_index, nearest_origin_index)
    IN  IF forward # <<>> THEN << {forward[1].distance_metres}, {forward[1].duration_seconds} >>
        ELSE IF backward # <<>> THEN << {backward[1].distance_metres}, {backward[1].duration_seconds} >>
        ELSE << {}, {} >>

\* FCR.get_highest_priority_incident(incidents, current_time): the first
\* incident of the sorted list whose status is not ATTENDED, as {incident},
\* or {} for None.  current_time is not read.
FirstNotAttended(sorted_incidents) ==
    LET found == {k \in 1..Len(sorted_incidents) : sorted_incidents[k].status # ATTENDED}
    IN  IF found = {} THEN {}
        ELSE {sorted_incidents[CHOOSE k \in found : \A l \in found : k <= l]}

get_highest_priority_incident(incidentList, current_time) ==
    FirstNotAttended(sort_by_priority_and_time(incidentList))

\* The lists of at most n incidents, each with its serial number, a
\* priority, a report time and a status.
StatusLists(n) ==
    UNION {{incidentList \in [1..m -> [id : 1..n, priority : Priorities, report_time : ReportTimes,
                                       status : Range(IncidentStatus)]] :
                \A k \in 1..m : incidentList[k].id = k} : m \in 0..n}

InitHighest ==
    /\ InitComputing
    /\ \E incidentList \in StatusLists(MaxSorted) :
           call = [fn |-> "get_highest_priority_incident", args |-> <<incidentList, 420>>,
                   result |-> <<>>]

GetHighestPriorityIncident ==
    Returns("get_highest_priority_incident",
            get_highest_priority_incident(call.args[1], call.args[2]))

SpecHighest == InitHighest /\ [][GetHighestPriorityIncident]_vars

\* Road_Sample_Query.py: the table written for n sampled points.  The pairs
\* i < j are queried in the order of the two loops; a pair whose query
\* answered (distance, duration) gets one row, a pair whose query answered
\* None (the empty tuple here) gets none.
PairsInOrder(n) ==
    SelectSeq([k \in 1..(n * n) |-> <<(k - 1) \div n, (k - 1) % n>>], LAMBDA p : p[1] < p[2])

Routes == { <<>>, <<4000, 300>>, <<9000, 600>> }

travel_times_distances(n, query_osrm) ==
    LET answered == SelectSeq(PairsInOrder(n), LAMBDA p : query_osrm[p] # <<>>)
    IN  [k \in 1..Len(answered) |->
            [point1_index |-> answered[k][1], point2_index |-> answered[k][2],
             distance_metres |-> query_osrm[answered[k]][1],
             duration_seconds |-> query_osrm[answered[k]][2]]]

\* The sampled points, four apart on the line, and the coordinates asked
\* for: every position from the first sampled point to the last.
SampledPoints == [k \in 1..MaxPoints |-> 4 * (k - 1)]
Coords == 0..(4 * (MaxPoints - 1))

\* TravelTimeCalculator(points_file, results_file) over a table that
\* Road_Sample_Query wrote, asked get_travel_time_and_distance(origin, dest).
InitTravel ==
    /\ InitComputing
    /\ \E query_osrm \in [Range(PairsInOrder(MaxPoints)) -> Routes], origin_coords, dest_coords \in Coords :
           call = [fn |-> "get_travel_time_and_distance",
                   args |-> <<SampledPoints, travel_times_distances(MaxPoints, query_osrm),
                              origin_coords, dest_coords>>,
                   result |-> <<>>]

GetTravelTimeAndDistance ==
    Returns("get_travel_time_and_distance",
            get_travel_time_and_distance(call.args[1], call.args[2], call.args[3], call.args[4]))

SpecTravel == InitTravel /\ [][GetTravelTimeAndDistance]_vars

\* fcr.gen_isr(incident) on an incident of fcr.incidents, between two runs
\* of the loop: the reference is logged and returned; no field of the
\* incident is written.
GenIsr(i) ==
    /\ Idle
    /\ i \in Range(incidents)
    /\ call' = [fn |-> "gen_isr", args |-> <<i>>, result |-> <<gen_isr(attrs[i])>>]
    /\ UNCHANGED dispatch_vars

\* The dispatcher and the loop with a caller that also asks for references.
NextIsr ==
    \/ \E location \in Locations, countdown \in Countdowns :
           AddIncident(location, countdown[1], countdown[2])
    \/ \E i \in IncidentIds : AssignIncident(i)
    \/ \E i \in IncidentIds : Enqueue(i)
    \/ \E total_ticks \in 0..MaxTicks : StartLoop(total_ticks)
    \/ Tick
    \/ Return
    \/ \E i \in IncidentIds : GenIsr(i)

SpecIsr == Init /\ [][NextIsr]_vars

\* ------------------------------------------------------------------- claims
Rank(status) == CHOOSE k \in 1..Len(IncidentStatus) : IncidentStatus[k] = status

\* C1: every change of an incident's status goes forward along REPORTED,
\* EN_ROUTE, ATTENDED, RESOLVED: no step of the dispatcher or of the loop
\* moves a status backward, and a dispatcher call moves it by at most one
\* state (a tick may take an incident through several consecutive states).
C1_StatusOnlyAdvances ==
    [][\A i \in IncidentIds :
          /\ Rank(inc'[i].status) >= Rank(inc[i].status)
          /\ last'.op # "tick" => Rank(inc'[i].status) <= Rank(inc[i].status) + 1]_vars

\* C2: officer and incident references agree in both directions: an officer
\* has an assigned_incident exactly when some incident of fcr.incidents names
\* it as assigned_officer, and every EN_ROUTE or ATTENDED incident names an
\* assigned_officer whose assigned_incident is that incident.
C2_ReferencesAgree ==
    /\ \A o \in Officers :
           off[o].assigned_incident # None
               <=> \E i \in Range(incidents) : inc[i].assigned_officer = o
    /\ \A i \in Range(incidents) :
           inc[i].status \in {EN_ROUTE, ATTENDED}
               => /\ inc[i].assigned_officer # None
                  /\ off[inc[i].assigned_officer].assigned_incident = i

\* C3: no two officers have assigned_incident referring to the same incident.
C3_OneOfficerPerIncident ==
    \A o1 \in Officers, o2 \in Officers :
        o1 # o2 /\ off[o1].assigned_incident # None
            => off[o1].assigned_incident # off[o2].assigned_incident

\* C4: assign_incident on an incident that already has an officer bound
\* changes neither the incident nor any officer.
C4_AssignIsIdempotent ==
    [][(/\ last'.op = "assign_incident"
        /\ \E o \in Officers : off[o].assigned_incident = last'.arg)
           => inc' = inc /\ off' = off]_vars

\* The stations whose response area contains the location and that have an
\* officer on duty and without incident, in the state offs at time t.
StaffedStations(offs, location, t) ==
    {s \in Range(Stations) : contains(s, location) /\ get_available_officers(offs, s, t) # <<>>}

\* The officers that the step binds to incident i.
NewlyBound(i) ==
    {o \in Officers : off[o].assigned_incident # i /\ off'[o].assigned_incident = i}

AllAssigned(offs, s) == \A o \in Range(StationOfficers[s]) : offs[o].assigned_incident # None

\* The step makes an assignment attempt on incident i from the state before
\* it: a dispatcher call on i, or a tick whose backlog loop starts with i.
AttemptedFirst(i) ==
    \/ last'.op \in {"add_incident", "assign_incident"} /\ last'.arg = i
    \/ /\ last'.op = "tick"
       /\ BacklogGuard([backlog |-> incident_backlog, off |-> off])
       /\ Head(incident_backlog) = i

\* C6: when every officer of one station containing the incident is assigned
\* and another station containing it has a free on-duty officer, an
\* assignment attempt (add_incident, assign_incident or the tick's backlog
\* step) binds an officer of the other station, records that station on the
\* incident and leaves the incident EN_ROUTE.
C6_FallbackStation ==
    [][\A i \in IncidentIds :
          AttemptedFirst(i)
            => \A s1 \in Range(Stations), s2 \in Range(Stations) :
                   (/\ s1 # s2
                    /\ contains(s1, inc'[i].location) /\ contains(s2, inc'[i].location)
                    /\ AllAssigned(off, s1)
                    /\ get_available_officers(off, s2, now) # <<>>)
                     => /\ inc'[i].status = EN_ROUTE
                        /\ inc'[i].station = s2
                        /\ \E o \in NewlyBound(i) : StationOf(o) = s2]_vars

\* C7: when no response area contains the location, add_incident leaves the
\* incident REPORTED, unbound and recorded in fcr.incidents, and logs that no
\* responsible station was found.
C7_NoStationIsLogged ==
    [][(/\ last'.op = "add_incident"
        /\ \A s \in Range(Stations) : ~contains(s, inc'[last'.arg].location))
           => /\ inc'[last'.arg].status = REPORTED
              /\ \A o \in Officers : off'[o].assigned_incident # last'.arg
              /\ last'.arg \in Range(incidents')
              /\ "NoResponsibleStation" \in log']_vars

\* C8: when no station containing a REPORTED incident has a free on-duty
\* officer, assign_incident leaves it REPORTED with no station, changes no
\* officer, and logs that no officer is available.
C8_NoOfficerIsLogged ==
    [][(/\ last'.op \in {"add_incident", "assign_incident"}
        /\ inc[last'.arg].status = REPORTED
        /\ StaffedStations(off, inc'[last'.arg].location, now) = {})
           => /\ inc'[last'.arg].status = REPORTED
              /\ inc'[last'.arg].station = None
              /\ off' = off
              /\ "NoAvailableOfficers" \in log']_vars

\* C9: an incident that is queued when a tick begins and is still REPORTED
\* when the tick ends is still queued.
C9_ReportedStaysQueued ==
    [][last'.op = "tick"
         => \A i \in Range(incident_backlog) :
                inc'[i].status = REPORTED => i \in Range(incident_backlog')]_vars

\* C10: a REPORTED incident queued when a tick begins, one of whose candidate
\* stations has an on-duty officer that is free from the beginning to the end
\* of the tick, is EN_ROUTE (or further) when the tick ends.
C10_BacklogFullyEvaluated ==
    [][last'.op = "tick" /\ raised' = "none"
         => \A i \in Range(incident_backlog) :
                (/\ inc[i].status = REPORTED
                 /\ \E s \in Range(Stations), o \in Officers :
                        /\ contains(s, inc[i].location)
                        /\ o \in Range(StationOfficers[s])
                        /\ is_on_duty(o, now)
                        /\ off[o].assigned_incident = None
                        /\ off'[o].assigned_incident = None)
                  => inc'[i].status # REPORTED]_vars

\* i is served before j: higher priority (IMMEDIATE is the highest), or the
\* same priority and an earlier report.
ServedBefore(i, j) ==
    \/ attrs[i].priority < attrs[j].priority
    \/ attrs[i].priority = attrs[j].priority /\ attrs[i].report_time < attrs[j].report_time

\* C11: a tick attempts the backlog incidents in priority order (higher
\* priority first, then earlier report_time), so when a tick binds a backlog
\* incident it leaves no incident on the backlog that is served before it;
\* and the attempts come before the countdowns, so an incident bound in a
\* tick is already counted down in that tick.
C11_AttemptsInPriorityOrder ==
    [][(last'.op = "tick" /\ raised' = "none") =>
         \A j \in Range(incident_backlog) :
             (inc[j].status = REPORTED /\ inc'[j].status # REPORTED) =>
                 /\ \A i \in Range(incident_backlog) :
                        ServedBefore(i, j) => i \notin Range(incident_backlog')
                 /\ inc'[j].status = ATTENDED
                 /\ inc'[j].resolution_time = {v - TimeStep : v \in inc[j].resolution_time}]_vars

\* C12: when a tick moves an incident from ATTENDED to RESOLVED, in the same
\* step the officer bound to it (every officer whose assigned_incident it
\* is) has assigned_incident = None and status AVAILABLE_AT_STATION, the
\* incident has left incidents_attended, and it is still in fcr.incidents.
C12_ResolveFreesOfficer ==
    [][last'.op = "tick" =>
         \A i \in IncidentIds :
             (inc[i].status = ATTENDED /\ inc'[i].status = RESOLVED) =>
                 /\ \E o \in Officers : off[o].assigned_incident = i
                 /\ \A o \in Officers :
                        off[o].assigned_incident = i =>
                            /\ off'[o].assigned_incident = None
                            /\ off'[o].status = AVAILABLE_AT_STATION
                 /\ i \notin Range(incidents_attended')
                 /\ i \in Range(incidents')]_vars

\* The tick has brought incident i nearer to RESOLVED: its status has
\* advanced, or the countdown of its status has gone down.
Advanced(i) ==
    \/ Rank(inc'[i].status) > Rank(inc[i].status)
    \/ /\ inc[i].status = EN_ROUTE
       /\ \E v \in inc[i].travel_time, w \in inc'[i].travel_time : w < v
    \/ /\ inc[i].status = ATTENDED
       /\ \E v \in inc[i].resolution_time, w \in inc'[i].resolution_time : w < v

\* C13: every incident that is EN_ROUTE or ATTENDED, whoever bound it, gets
\* ATTENDED and then RESOLVED as the simulation keeps ticking; so every tick
\* that completes brings each such incident nearer to RESOLVED (it advances
\* its status or lowers its running countdown) and none is left as it was.
C13_EveryTickAdvances ==
    [][(last'.op = "tick" /\ raised' = "none") =>
         \A i \in Range(incidents) :
             inc[i].status \in {EN_ROUTE, ATTENDED} => Advanced(i)]_vars

\* C14: an officer on the NIGHT shift (22:00-07:00) is on duty at 02:00 and
\* off duty at 12:00, whatever simulation time the officer was constructed at.
C14_NightShiftDuty ==
    (call.fn = "is_on_duty" /\ call.result # <<>> /\ call.args[1] = "NIGHT") =>
        /\ call.args[3] % MinutesPerDay = 2 * 60 => call.result[1] = TRUE
        /\ call.args[3] % MinutesPerDay = 12 * 60 => call.result[1] = FALSE

\* The number of times x occurs in the sequence s.
Count(s, x) == Cardinality({k \in 1..Len(s) : s[k] = x})

\* C15: sort_by_priority_and_time returns a permutation of its input with
\* the higher priorities first (IMMEDIATE, then PROMPT, SCHEDULED,
\* APPOINTMENT, NO_RESPONSE) and equal priorities in ascending report_time.
C15_SortedByPriorityThenTime ==
    (call.fn = "sort_by_priority_and_time" /\ call.result # <<>>) =>
        LET given == call.args[1]
            sorted == call.result[1]
        IN  /\ Len(sorted) = Len(given)
            /\ \A x \in Range(given) : Count(sorted, x) = Count(given, x)
            /\ \A k, l \in 1..Len(sorted) :
                   k < l => \/ sorted[k].priority < sorted[l].priority
                            \/ /\ sorted[k].priority = sorted[l].priority
                               /\ sorted[k].report_time <= sorted[l].report_time

C17_FromCode ==
    (call.fn = "from_code" /\ call.result # <<>>) =>
        /\ Len(OfficerStatus) = 14
        /\ \A k \in 1..Len(OfficerStatus) :
               call.args[1] = OfficerStatus[k].code =>
                   call.result[1] = [returned |-> OfficerStatus[k].name, raised |-> "none"]
        /\ (\A k \in 1..Len(OfficerStatus) : call.args[1] # OfficerStatus[k].code) =>
               call.result[1].raised = "ValueError"

\* from_code("99") has returned RADIO_ON.
C17_Witness ==
    /\ call.fn = "from_code"
    /\ call.args = <<"99">>
    /\ call.result = <<[returned |-> "RADIO_ON", raised |-> "none"]>>

C19_SerialIds ==
    /\ \A k \in 1..Len(incidents) : attrs[incidents[k]].id = k
    /\ \A i, j \in Range(incidents) : i # j => attrs[i].id # attrs[j].id
    /\ \A k \in 1..(MaxIncidents + 1) :
           get_incident_by_id(k) =
               [returned |-> IF k <= Len(incidents) THEN incidents[k] ELSE None, raised |-> "none"]

\* C20: an officer for whom the travel-time oracle answers (None, None) is
\* not bound to the incident, and nothing is raised for it: whenever an
\* officer has an incident, the oracle knows a travel time from the
\* officer's location to the incident's.
C20_UnknownTravelTimeNotBound ==
    \A o \in Officers :
        off[o].assigned_incident # None =>
            get_travel_time_and_distance(points_np, results_df, OfficerLocation[o],
                                         inc[off[o].assigned_incident].location) # << {}, {} >>

\* o comes before p on the roster of their station.
RosterBefore(o, p) ==
    \E k, l \in 1..Len(StationOfficers[StationOf(o)]) :
        /\ k < l
        /\ StationOfficers[StationOf(o)][k] = o
        /\ StationOfficers[StationOf(o)][l] = p

\* C21: every binding, by assign_officer_to_incident or by the loop's
\* backlog step, takes an officer that is unassigned and on duty, and the
\* nearest such officer of the station to the incident, the first on the
\* roster among equally near ones: no officer of the station that was
\* available and is left unassigned is nearer, or as near and earlier.
C21_BindsNearestAvailable ==
    [][\A i \in IncidentIds : \A o \in NewlyBound(i) :
           /\ off[o].assigned_incident = None
           /\ is_on_duty(o, now)
           /\ \A p \in Range(StationOfficers[StationOf(o)]) :
                  (/\ p # o
                   /\ off[p].assigned_incident = None
                   /\ is_on_duty(p, now)
                   /\ off'[p].assigned_incident = None)
                  => \/ distance(OfficerLocation[o], inc'[i].location)
                            < distance(OfficerLocation[p], inc'[i].location)
                     \/ /\ distance(OfficerLocation[o], inc'[i].location)
                            = distance(OfficerLocation[p], inc'[i].location)
                        /\ RosterBefore(o, p)]_vars

\* The key the stations are ordered by according to C22: distance, minus the
\* number of available officers, the number of incidents open at the station.
OpenWorkloadKey(incs, offs, incidentList, station, location, t) ==
    << distance(StationLocation[station], location),
       0 - Len(get_available_officers(offs, station, t)),
       Cardinality({k \in 1..Len(incidentList) :
                       /\ incs[incidentList[k]].station = station
                       /\ incs[incidentList[k]].status # RESOLVED}) >>

\* C22: determine_station_priority returns exactly the stations whose
\* response area contains the incident's location, each once, in ascending
\* order of distance, then of minus the available officers, then of the
\* number of incidents open (not yet resolved) at the station.
C22_StationOrder ==
    (call.fn = "determine_station_priority" /\ call.result # <<>>) =>
        LET incs == call.args[1]
            offs == call.args[2]
            location == incs[call.args[4]].location
            ranked == call.result[1]
            key(s) == OpenWorkloadKey(incs, offs, call.args[3], s, location, call.args[5])
        IN  /\ Range(ranked) = {s \in Range(Stations) : contains(s, location)}
            /\ Len(ranked) = Cardinality(Range(ranked))
            /\ \A k, l \in 1..Len(ranked) : k < l => ~KeyLess(key(ranked[l]), key(ranked[k]))

\* C23: a binding sets the officer's status to ATTENDING_INCIDENT, so no
\* officer that has an incident is in the dispatchable status
\* AVAILABLE_AT_STATION.
C23_BoundOfficerNotDispatchable ==
    \A o \in Officers :
        off[o].assigned_incident # None => off[o].status # AVAILABLE_AT_STATION

\* C24: an EN_ROUTE incident has a number as travel_time and an ATTENDED
\* incident has a number as resolution_time, so the loop never compares or
\* decrements a countdown that is None (no TypeError is raised).
C24_CountdownsAreSet ==
    /\ \A i \in Range(incidents) :
           /\ inc[i].status = EN_ROUTE => inc[i].travel_time # {}
           /\ inc[i].status = ATTENDED => inc[i].resolution_time # {}
    /\ raised # "TypeError"

\* The incidents of a list that are not attended yet: neither ATTENDED nor
\* RESOLVED.
Unattended(incidentList) ==
    {x \in Range(incidentList) : x.status # ATTENDED /\ x.status # RESOLVED}

\* C25: get_highest_priority_incident returns None exactly when the list has
\* no unattended incident, and otherwise an unattended incident of the list
\* that no unattended incident precedes in priority (IMMEDIATE first) or, at
\* the same priority, in report_time.
C25_HighestUnattended ==
    (call.fn = "get_highest_priority_incident" /\ call.result # <<>>) =>
        LET given == call.args[1]
            returned == call.result[1]
        IN  /\ (returned = {}) <=> (Unattended(given) = {})
            /\ \A r \in returned :
                   /\ r \in Unattended(given)
                   /\ \A x \in Unattended(given) :
                          \/ r.priority < x.priority
                          \/ r.priority = x.priority /\ r.report_time <= x.report_time

\* The clock times strictly inside the window of a shift, which runs from
\* the shift's start hour to its end hour and wraps past midnight when the
\* end hour is not after the start hour (LATE ends at 24:00).
InsideWindow(shift, clock) ==
    IF start_time(shift) < end_time_of(shift)
    THEN start_time(shift) < clock /\ clock < end_time_of(shift)
    ELSE start_time(shift) < clock \/ clock < end_time_of(shift)

\* The clock times strictly outside the window of a shift.
OutsideWindow(shift, clock) ==
    IF start_time(shift) < end_time_of(shift)
    THEN clock < start_time(shift) \/ end_time_of(shift) < clock
    ELSE end_time_of(shift) < clock /\ clock < start_time(shift)

\* C26: for each shift type, is_on_duty(t) is true at the clock times inside
\* the shift's window (EARLY 07:00-16:00, LATE 15:00-00:00, NIGHT
\* 22:00-07:00) and false at the clock times outside it.
C26_OnDutyInsideWindow ==
    (call.fn = "is_on_duty" /\ call.result # <<>>) =>
        /\ InsideWindow(call.args[1], call.args[3] % MinutesPerDay) => call.result[1] = TRUE
        /\ OutsideWindow(call.args[1], call.args[3] % MinutesPerDay) => call.result[1] = FALSE

\* The rows of the table that join two sampled points, in either
\* orientation.
Joining(results, index1, index2) ==
    {k \in 1..Len(results) :
        \/ results[k].point1_index = index1 /\ results[k].point2_index = index2
        \/ results[k].point1_index = index2 /\ results[k].point2_index = index1}

\* C27: get_travel_time_and_distance returns the stored distance and
\* duration of the table row that joins the sampled point nearest to the
\* origin and the one nearest to the destination, in whichever orientation
\* the row is stored; it returns (None, None) exactly when no row joins the
\* two; and the answer for (destination, origin) is the same.
C27_LookupEitherOrientation ==
    (call.fn = "get_travel_time_and_distance" /\ call.result # <<>>) =>
        LET points == call.args[1]
            results == call.args[2]
            joining == Joining(results, nearest_index(points, call.args[3]),
                               nearest_index(points, call.args[4]))
        IN  /\ (call.result[1] = << {}, {} >>) <=> (joining = {})
            /\ joining # {} =>
                   \E k \in joining : call.result[1] = << {results[k].distance_metres},
                                                          {results[k].duration_seconds} >>
            /\ call.result[1] =
                   get_travel_time_and_distance(points, results, call.args[4], call.args[3])

\* A lookup answered from a row stored with the destination's point first,
\* for an origin equidistant from two sampled points.
C27_Witness ==
    /\ call.fn = "get_travel_time_and_distance"
    /\ call.result # <<>>
    /\ call.result[1] # << {}, {} >>
    /\ nearest_index(call.args[1], call.args[3]) > nearest_index(call.args[1], call.args[4])
    /\ call.args[3] % 4 = 2

\* C28: an incident's isr is "PENDING" until gen_isr has run for the
\* incident and is the generated reference afterwards: after a call of
\* gen_isr for an incident, the incident's isr is the reference the call
\* returned, and no step changes an isr that is no longer "PENDING".
C28_IsrHoldsReference ==
    /\ (call.fn = "gen_isr" /\ call.result # <<>>) => inc[call.args[1]].isr = call.result[1]
    /\ \A i \in Range(incidents) : inc[i].isr = PENDING \/ inc[i].isr = gen_isr(attrs[i])

\* C29: an officer with an assigned incident points at an incident that is
\* EN_ROUTE or ATTENDED, never at one that is REPORTED or RESOLVED.
C29_BoundOfficerOnOpenIncident ==
    \A o \in Officers :
        off[o].assigned_incident # None =>
            inc[off[o].assigned_incident].status \in {EN_ROUTE, ATTENDED}

\* C30: at the end of every tick, incidents_attended holds exactly the
\* incidents of fcr.incidents whose status is EN_ROUTE or ATTENDED, however
\* they were bound.
C30_WorkingSetIsTheOpenIncidents ==
    (last.op = "tick" /\ raised = "none") =>
        Range(incidents_attended) = {i \in Range(incidents) : inc[i].status \in {EN_ROUTE, ATTENDED}}

\* C31: in the update step of a tick every incident of the working set is
\* examined exactly once, also when an incident is resolved and removed
\* during the pass: an ATTENDED incident that is in incidents_attended when
\* the tick begins has its resolution countdown taken down by one timestep,
\* once, in every tick that ends without an exception.
C31_EveryActiveIncidentExamined ==
    [][(last'.op = "tick" /\ raised' = "none") =>
           \A i \in Range(incidents_attended) :
               inc[i].status = ATTENDED =>
                   \E v \in inc[i].resolution_time : inc'[i].resolution_time = {v - TimeStep}]_vars

\* C32: main_simulation_loop ends by its while condition only, after the
\* ticks that total_time holds (ceil(total_time / timestep)): as long as the
\* loop has not returned, no exception has ended it and the clock has not
\* passed end_time; and it returns when the clock is at end_time.
C32_LoopRunsToEndTime ==
    [][/\ running' => (raised' = "none" /\ now' <= end_time')
       /\ (running /\ ~running') => now = end_time]_vars

\* The table holds a route for every pair of sampled points that
\* Road_Sample_Query queries.
CompleteTable(points, results) ==
    \A i, j \in 0..(Len(points) - 1) :
        i < j => \E k \in 1..Len(results) :
                     results[k].point1_index = i /\ results[k].point2_index = j

\* C33: over a table that holds a route for every pair i < j of sampled
\* points, get_travel_time_and_distance returns a distance and a duration,
\* not (None, None), for every origin and destination, also when the two
\* have the same nearest sampled point.
C33_CompleteTableAlwaysAnswers ==
    (/\ call.fn = "get_travel_time_and_distance"
     /\ call.result # <<>>
     /\ CompleteTable(call.args[1], call.args[2])) =>
        (call.result[1][1] # {} /\ call.result[1][2] # {})

====
